---------------------------- MODULE Spec2Model ----------------------------
(***************************************************************************)
(* A model of remove_cars_pro.py: the batch loop of main and the image     *)
(* pipeline of process_file (tight crop, defringe, scale, ground           *)
(* alignment, shadow, compositing).                                        *)
(*                                                                         *)
(* A raster is modelled by its shape and its opacity channel.  The         *)
(* opacity channel is a record [w, h, bg, px]: px gives the opacity of     *)
(* the listed positions <<row, col>>, every other position has opacity     *)
(* bg.  The colour channels are not modelled.                              *)
(***************************************************************************)
EXTENDS Integers, Sequences, FiniteSets, TLC

VARIABLES
    dir,    \* the entries of INPUT_DIR, in the order os.listdir returns them
    files,  \* main: the filtered list
    k,      \* main: index of the next file of the for loop (1-based)
    pc,     \* main: "start", "loop", "done" or "nofiles"; "idle" in CallSpec
    out,    \* the files of OUTPUT_DIR: out_name -> the input it was saved from
    log,    \* the lines printed so far
    call    \* CallSpec: the function called, its argument and its locals

vars == <<dir, files, k, pc, out, log, call>>

---------------------------------------------------------------------------
(* Bounds of the model *)

MaxSide == 3     \* sides of the pixel-exact rasters are 1..MaxSide
MaxDim == 16     \* resize_to_target is called on every shape in (1..MaxDim)^2
MaxFiles == 2    \* entries of INPUT_DIR

\* Number of positions of a pixel-exact raster whose opacity differs from bg.
PixCounts == {0, 1, 2}

\* Opacity values around the thresholds of the code (8 and 20) and the extremes.
AlphaSamples == {0, 9, 21, 255}
BgSamples == {0, 255}
\* Sides far from 1..MaxSide: a panorama strip, a typical photograph side.
WideSides == {267, 600}

---------------------------------------------------------------------------
(* Program constants *)

W == 600
H == 400
GROUND_Y == 320          \* int(H * 0.80)
TARGET_W == 528          \* int(W * TARGET_WIDTH_FILL)
TARGET_H == 328          \* int(H * TARGET_HEIGHT_FILL)
CROP_THRESHOLD == 8
GROUND_THRESHOLD == 20
PROCESS_PAD == 8

---------------------------------------------------------------------------
(* Rasters *)

\* The least and the largest element of a set of integers (the first
\* conjunct only spares the comparison with every element).
Min(S) == CHOOSE x \in S : (x - 1) \notin S /\ \A y \in S : x <= y
Max(S) == CHOOSE x \in S : (x + 1) \notin S /\ \A y \in S : x >= y

Positions(w, h) == (0..(h - 1)) \X (0..(w - 1))

NoPx == [p \in {} |-> 0]

Uniform(w, h, a) == [w |-> w, h |-> h, bg |-> a, px |-> NoPx]

AlphaAt(img, p) == IF p \in DOMAIN img.px THEN img.px[p] ELSE img.bg

\* Positions are kept in px only where the opacity differs from bg.
Normal(w, h, bg, f) ==
    LET D == {p \in DOMAIN f : f[p] # bg}
    IN  [w |-> w, h |-> h, bg |-> bg, px |-> IF D = {} THEN NoPx ELSE [p \in D |-> f[p]]]

\* Some pixel of row r (column c) has opacity > t.
RowHasOver(img, r, t) ==
    \/ \E p \in DOMAIN img.px : p[1] = r /\ img.px[p] > t
    \/ img.bg > t /\ Cardinality({p \in DOMAIN img.px : p[1] = r}) < img.w

ColHasOver(img, c, t) ==
    \/ \E p \in DOMAIN img.px : p[2] = c /\ img.px[p] > t
    \/ img.bg > t /\ Cardinality({p \in DOMAIN img.px : p[2] = c}) < img.h

\* The opacity values that occur in the raster.
AlphaValues(img) ==
    {img.px[p] : p \in DOMAIN img.px}
        \cup (IF Cardinality(DOMAIN img.px) < img.w * img.h THEN {img.bg} ELSE {})

IsUniform(img) == Cardinality(AlphaValues(img)) = 1

\* rgba[y0:y1, x0:x1]
Slice(img, y0, y1, x0, x1) ==
    LET D == {p \in DOMAIN img.px : y0 <= p[1] /\ p[1] < y1 /\ x0 <= p[2] /\ p[2] < x1}
        E == {<<p[1] - y0, p[2] - x0>> : p \in D}
    IN  [w |-> x1 - x0, h |-> y1 - y0, bg |-> img.bg,
         px |-> IF E = {} THEN NoPx ELSE [q \in E |-> img.px[<<q[1] + y0, q[2] + x0>>]]]

---------------------------------------------------------------------------
(* tight_crop_rgba *)

tight_crop_rgba(rgba, pad) ==
    LET xs == {c \in 0..(rgba.w - 1) : ColHasOver(rgba, c, CROP_THRESHOLD)}
        ys == {r \in 0..(rgba.h - 1) : RowHasOver(rgba, r, CROP_THRESHOLD)}
    IN  IF xs = {}
        THEN rgba
        ELSE LET x0 == Max({Min(xs) - pad, 0})
                 x1 == Min({Max(xs) + pad + 1, rgba.w})
                 y0 == Max({Min(ys) - pad, 0})
                 y1 == Min({Max(ys) + pad + 1, rgba.h})
             IN  Slice(rgba, y0, y1, x0, x1)

---------------------------------------------------------------------------
(* defringe *)

\* cv2.getStructuringElement(cv2.MORPH_ELLIPSE, (3, 3)): the centre and its
\* four edge neighbours.
Kernel == {<<0, 0>>, <<-1, 0>>, <<1, 0>>, <<0, -1>>, <<0, 1>>}

InBounds(img, p) == 0 <= p[1] /\ p[1] < img.h /\ 0 <= p[2] /\ p[2] < img.w

Neighbours(img, p) ==
    {q \in {<<p[1] + d[1], p[2] + d[2]>> : d \in Kernel} : InBounds(img, q)}

\* a.astype(float32) / 255.0 followed by (a * 255).astype(uint8): in float32
\* the product is the integer again for every a in 0..255.
ToUint8(a) == (a * 255) \div 255


\* A variant of erode that takes the maximum over the kernel (a dilation).
erode_max(a8) ==
    LET D == UNION {Neighbours(a8, p) : p \in DOMAIN a8.px}
        f == [p \in D |-> Max({AlphaAt(a8, q) : q \in Neighbours(a8, p)})]
    IN  Normal(a8.w, a8.h, a8.bg, f)

\* cv2.erode, one iteration: the minimum over the kernel; positions outside
\* the raster do not take part (the default border of erode).
erode(a8) ==
    LET D == UNION {Neighbours(a8, p) : p \in DOMAIN a8.px}
        f == [p \in D |-> Min({AlphaAt(a8, q) : q \in Neighbours(a8, p)})]
    IN  Normal(a8.w, a8.h, a8.bg, f)

defringe(rgba) ==
    LET a8 == Normal(rgba.w, rgba.h, ToUint8(rgba.bg),
                     [p \in DOMAIN rgba.px |-> ToUint8(rgba.px[p])])
        a8_er == erode(a8)
    IN  Normal(a8_er.w, a8_er.h, ToUint8(a8_er.bg),
               [p \in DOMAIN a8_er.px |-> ToUint8(a8_er.px[p])])

---------------------------------------------------------------------------
(* find_groundline *)


\* A variant of find_groundline that returns the first solid row.
find_groundline_top(alpha) ==
    LET ys == {r \in 0..(alpha.h - 1) : RowHasOver(alpha, r, GROUND_THRESHOLD)}
    IN  IF ys = {} THEN alpha.h - 1 ELSE Min(ys)

find_groundline(alpha) ==
    LET ys == {r \in 0..(alpha.h - 1) : RowHasOver(alpha, r, GROUND_THRESHOLD)}
    IN  IF ys = {} THEN alpha.h - 1 ELSE Max(ys)

---------------------------------------------------------------------------
(* resize_to_target *)

\* The operands <<n, num, den>>, with n and den in 1..600, for which the
\* double-precision product n * (num / den) is just below the integer
\* n * num / den, so that int() gives one less than the exact quotient
\* (computed with CPython for num = 528 and num = 328).
DoubleShortfall ==
    {
     <<15, 328, 10>>, <<21, 328, 14>>, <<15, 328, 20>>, <<25, 328, 20>>, <<30, 328, 20>>,
     <<21, 328, 28>>, <<42, 328, 28>>, <<15, 328, 40>>, <<25, 328, 40>>, <<30, 328, 40>>,
     <<45, 328, 40>>, <<50, 328, 40>>, <<55, 328, 40>>, <<60, 328, 40>>, <<75, 328, 50>>,
     <<21, 328, 56>>, <<42, 328, 56>>, <<77, 328, 56>>, <<84, 328, 56>>, <<30, 328, 80>>,
     <<50, 328, 80>>, <<60, 328, 80>>, <<90, 328, 80>>, <<100, 328, 80>>, <<110, 328, 80>>,
     <<120, 328, 80>>, <<75, 328, 100>>, <<150, 328, 100>>, <<42, 328, 112>>, <<84, 328, 112>>,
     <<154, 328, 112>>, <<168, 328, 112>>, <<225, 328, 150>>, <<231, 328, 154>>,
     <<60, 328, 160>>, <<100, 328, 160>>, <<120, 328, 160>>, <<180, 328, 160>>,
     <<200, 328, 160>>, <<220, 328, 160>>, <<240, 328, 160>>, <<75, 328, 200>>,
     <<150, 328, 200>>, <<300, 328, 200>>, <<84, 328, 224>>, <<168, 328, 224>>,
     <<308, 328, 224>>, <<336, 328, 224>>, <<351, 328, 234>>, <<267, 328, 267>>,
     <<423, 328, 282>>, <<441, 328, 294>>, <<225, 328, 300>>, <<450, 328, 300>>,
     <<231, 328, 308>>, <<385, 328, 308>>, <<462, 328, 308>>, <<311, 328, 311>>,
     <<120, 328, 320>>, <<200, 328, 320>>, <<240, 328, 320>>, <<360, 328, 320>>,
     <<400, 328, 320>>, <<440, 328, 320>>, <<480, 328, 320>>, <<321, 328, 321>>,
     <<483, 328, 322>>, <<327, 328, 327>>, <<150, 328, 400>>, <<300, 328, 400>>,
     <<600, 328, 400>>, <<168, 328, 448>>, <<336, 328, 448>>, <<351, 328, 468>>,
     <<267, 328, 534>>, <<534, 328, 534>>, <<423, 328, 564>>, <<569, 328, 569>>,
     <<571, 328, 571>>, <<441, 328, 588>>, <<225, 328, 600>>, <<450, 328, 600>>,
     <<55, 528, 121>>, <<75, 528, 180>>, <<69, 528, 207>>, <<55, 528, 242>>, <<99, 528, 242>>,
     <<110, 528, 242>>, <<75, 528, 360>>, <<150, 528, 360>>, <<165, 528, 360>>,
     <<69, 528, 414>>, <<138, 528, 414>>, <<205, 528, 451>>, <<177, 528, 472>>,
     <<55, 528, 484>>, <<99, 528, 484>>, <<110, 528, 484>>, <<187, 528, 484>>,
     <<198, 528, 484>>, <<209, 528, 484>>, <<220, 528, 484>>, <<231, 528, 484>>,
     <<47, 528, 517>>, <<94, 528, 517>>, <<188, 528, 517>>, <<235, 528, 517>>
    }

\* int(h * 0.35) for h < 1000: the double 0.35 is below 35/100.
Shortfall035 == {180, 340, 360, 660, 680, 700, 720}


\* A variant of ScaleOf that takes the larger of the two ratios.
ScaleOfMax(w, h) ==
    IF TARGET_W * h <= TARGET_H * w THEN <<TARGET_H, h>> ELSE <<TARGET_W, w>>

\* scale = min(target_w / w, target_h / h), as <<numerator, denominator>>.
ScaleOf(w, h) ==
    IF TARGET_W * h <= TARGET_H * w THEN <<TARGET_W, w>> ELSE <<TARGET_H, h>>

\* int(n * scale)
IntTimes(n, scale) ==
    LET q == (n * scale[1]) \div scale[2]
    IN  IF <<n, scale[1], scale[2]>> \in DoubleShortfall THEN q - 1 ELSE q

NewSize(w, h) ==
    LET scale == ScaleOf(w, h)
    IN  [w |-> Max({1, IntTimes(w, scale)}), h |-> Max({1, IntTimes(h, scale)})]

\* pil.resize((new_w, new_h), Image.LANCZOS).  A raster of one opacity keeps
\* it.  Of any other raster the resampled opacities are known only to lie in
\* 0..255: a raster with no opacity above the largest of the input, clear or
\* of one opacity, or clear but for one pixel in its first or last row.
Resampled(img, w, h) ==
    IF IsUniform(img)
    THEN {Uniform(w, h, a) : a \in AlphaValues(img)}
    ELSE LET vals == {a \in AlphaSamples \cup {GROUND_THRESHOLD} :
                          a <= Max(AlphaValues(img))}
         IN  {Uniform(w, h, a) : a \in vals}
                 \cup {Normal(w, h, 0, [p \in {<<r, 0>>} |-> a]) :
                           r \in {0, h - 1}, a \in vals}

resize_to_target(rgba) ==
    LET new == NewSize(rgba.w, rgba.h)
    IN  Resampled(rgba, new.w, new.h)

---------------------------------------------------------------------------
(* make_ground_shadow *)

NoImage == Uniform(0, 0, 0)

\* int(h * 0.35)
ShadowHeight(h) ==
    IF h \in Shortfall035 THEN (35 * h) \div 100 - 1 ELSE (35 * h) \div 100

\* int(obj_h * 0.65)
ShadowOffset(obj_h) == (65 * obj_h) \div 100


\* A variant of ShadowPoint with the factor 0.5.
ShadowPointHalf(p) == p \div 2

\* shadow.point(lambda p: int(p * 0.25))
ShadowPoint(p) == p \div 4

\* shadow.resize((w, sh), Image.BILINEAR).filter(GaussianBlur(18)): weighted
\* means of the input.  A mask of one opacity keeps it; of any other mask the
\* values lie between the least and the largest input value.
Blurred(alpha, w, sh) ==
    IF IsUniform(alpha)
    THEN {Uniform(w, sh, a) : a \in AlphaValues(alpha)}
    ELSE LET lo == Min(AlphaValues(alpha))
             hi == Max(AlphaValues(alpha))
         IN  {Uniform(w, sh, a) : a \in {lo, (lo + hi) \div 2, hi}}
                 \cup {Normal(w, sh, lo, [p \in {<<0, 0>>} |-> hi])}

\* The outcomes of make_ground_shadow: Image.resize raises ValueError
\* ("height and width must be > 0") for a target height below 1.
make_ground_shadow(alpha) ==
    LET sh == ShadowHeight(alpha.h)
    IN  IF sh < 1
        THEN {[raised |-> TRUE, layer |-> NoImage]}
        ELSE {[raised |-> FALSE,
               layer |-> Normal(m.w, m.h, ShadowPoint(m.bg),
                                [p \in DOMAIN m.px |-> ShadowPoint(m.px[p])])] :
                  m \in Blurred(alpha, alpha.w, sh)}

---------------------------------------------------------------------------
(* process_file *)

\* The canvas: its shape and the opacity values that occur in it.
NewCanvas == [w |-> W, h |-> H, alphas |-> {255}]

\* Pillow's ImagingAlphaComposite, opacity channel: source s over backdrop d.
ShiftForDiv255(a) == ((a \div 256) + a) \div 256

Over(s, d) == IF s = 0 THEN d ELSE ShiftForDiv255(s * 255 + d * (255 - s) + 128)

\* canvas.alpha_composite(layer, (x, y)): the part of the layer inside the
\* canvas is blended over the canvas; the canvas keeps its shape (a negative
\* offset crops the layer, Pillow >= 8.2).
alpha_composite(canvas, layer, x, y) ==
    LET inside == /\ x < canvas.w /\ x + layer.w > 0
                  /\ y < canvas.h /\ y + layer.h > 0
        all == x <= 0 /\ y <= 0 /\ x + layer.w >= canvas.w /\ y + layer.h >= canvas.h
        blended == {Over(s, d) : s \in AlphaValues(layer), d \in canvas.alphas}
    IN  [canvas EXCEPT !.alphas = IF ~inside THEN @
                                  ELSE IF all THEN blended
                                  ELSE @ \cup blended]

\* Steps 3 to 6 of process_file on the scaled raster.
Place(cut, cropped, rgba, sh) ==
    LET bottom == find_groundline(rgba)
        x == (W - rgba.w) \div 2
        y == GROUND_Y - bottom
        shadow_y == y + ShadowOffset(rgba.h)
        canvas0 == NewCanvas
        canvas1 == alpha_composite(canvas0, sh.layer, x, shadow_y)
        canvas2 == alpha_composite(canvas1, rgba, x, y)
    IN  [raised |-> sh.raised, cut |-> cut, cropped |-> cropped, rgba |-> rgba,
         bottom |-> bottom, obj_w |-> rgba.w, obj_h |-> rgba.h, x |-> x, y |-> y,
         shadow_layer |-> sh.layer, shadow_y |-> shadow_y,
         canvas |-> IF sh.raised THEN canvas0 ELSE canvas2]

\* The possible runs of process_file on the extractor's output cut: the
\* locals at the return, or at the exception (raised).
process_file(cut) ==
    LET cropped == tight_crop_rgba(cut, PROCESS_PAD)
        fringed == defringe(cropped)
    IN  UNION {{Place(cut, cropped, rgba, sh) : sh \in make_ground_shadow(rgba)} :
                  rgba \in resize_to_target(fringed)}

---------------------------------------------------------------------------
(* main *)

\* File names of INPUT_DIR, as stem and extension.
Names ==
    {[stem |-> "car", ext |-> "jpg"], [stem |-> "car", ext |-> "PNG"],
     [stem |-> "van", ext |-> "jpg"], [stem |-> "notes", ext |-> "txt"]}

\* What the file holds: a photograph the pipeline handles, a file Image.open
\* or the extractor rejects, a photograph whose cut-out is a clear strip, a
\* photograph whose output path cannot be written.
Kinds == {"good", "corrupt", "strip", "locked"}

Entries == {[stem |-> n.stem, ext |-> n.ext, kind |-> kd] : n \in Names, kd \in Kinds}

\* The extractor's output for the file.
CutOf(f) == IF f.kind = "strip" THEN Uniform(600, 1, 0) ELSE Uniform(2, 2, 255)

\* f.lower(), on the extension
Lower(ext) == IF ext = "PNG" THEN "png" ELSE ext

\* f.lower().endswith((".png", ".jpg", ".jpeg", ".webp"))
Accepted(f) == Lower(f.ext) \in {"png", "jpg", "jpeg", "webp"}

NameOf(f) == [stem |-> f.stem, ext |-> f.ext]

\* os.path.splitext(f)[0] + ".png"
OutName(f) == [stem |-> f.stem, ext |-> "png"]

\* The runs of process_file(in_path): raised tells whether it ended in an
\* exception.
Runs(f) ==
    IF f.kind = "corrupt" THEN {TRUE} ELSE {loc.raised : loc \in process_file(CutOf(f))}


\* A variant of Handle that prints OK whether or not the body raised.
HandleAlwaysOk(f, raised) ==
    [saved |-> ~(raised \/ f.kind = "locked"), line |-> <<"OK", OutName(f)>>]

\* The try statement of the loop body for file f, process_file having raised
\* or not: the line printed and whether out_path was written.
Handle(f, raised) ==
    IF raised \/ f.kind = "locked"
    THEN [saved |-> FALSE, line |-> <<"FAIL", NameOf(f)>>]
    ELSE [saved |-> TRUE, line |-> <<"OK", OutName(f)>>]

NoCall == [fn |-> "none"]

Listings ==
    {d \in UNION {[1..n -> Entries] : n \in 0..MaxFiles} :
        \A i, j \in DOMAIN d : i # j => NameOf(d[i]) # NameOf(d[j])}

Init ==
    /\ dir \in Listings
    /\ files = <<>>
    /\ k = 1
    /\ pc = "start"
    /\ out = {}
    /\ log = <<>>
    /\ call = NoCall

MainList ==
    /\ pc = "start"
    /\ files' = SelectSeq(dir, Accepted)
    /\ IF files' = <<>>
       THEN pc' = "nofiles" /\ log' = Append(log, <<"No files in cars_input">>)
       ELSE pc' = "loop" /\ log' = log
    /\ UNCHANGED <<dir, k, out, call>>

MainFile ==
    /\ pc = "loop"
    /\ k <= Len(files)
    /\ \E raised \in Runs(files[k]) :
           LET f == files[k]
               done == Handle(f, raised)
           IN  /\ out' = IF done.saved
                         THEN {o \in out : o.name # OutName(f)}
                                  \cup {[name |-> OutName(f), from |-> NameOf(f)]}
                         ELSE out
               /\ log' = Append(log, done.line)
    /\ k' = k + 1
    /\ UNCHANGED <<dir, files, pc, call>>

MainDone ==
    /\ pc = "loop"
    /\ k > Len(files)
    /\ log' = Append(log, <<"DONE">>)
    /\ pc' = "done"
    /\ UNCHANGED <<dir, files, k, out, call>>

Next == MainList \/ MainFile \/ MainDone

Spec == Init /\ [][Next]_vars

---------------------------------------------------------------------------
(* Calls of the single functions *)

Sides == 1..MaxSide

\* The pixel-exact rasters: sides in 1..MaxSide, at most Max(PixCounts)
\* positions whose opacity differs from bg.
SmallRasters ==
    UNION {UNION {{Normal(w, h, b, f) : f \in [S -> AlphaSamples \ {b}]} :
                      S \in {T \in SUBSET Positions(w, h) : Cardinality(T) \in PixCounts}} :
               w \in Sides, h \in Sides, b \in BgSamples}

\* Rasters with a wide side: of one opacity, or clear but for one pixel.
WideRasters ==
    {Uniform(w, h, b) : w \in Sides \cup WideSides, h \in Sides \cup WideSides,
                        b \in BgSamples}
        \cup {Normal(w, h, 0, [p \in {<<0, 0>>} |-> a]) :
                  w \in WideSides, h \in WideSides, a \in AlphaSamples}

\* The extractor outputs process_file is called on.
ExtractorOutputs == {r \in SmallRasters : Cardinality(DOMAIN r.px) <= 1} \cup WideRasters

Pads == {0, 1, 6}

ResizeInputs ==
    {Uniform(w, h, b) : w \in (1..MaxDim) \cup WideSides, h \in (1..MaxDim) \cup WideSides,
                        b \in BgSamples}
        \cup {Normal(w, h, 0, [p \in {<<0, 0>>} |-> 255]) : w \in Sides, h \in Sides}

\* The masks make_ground_shadow is called on: every height a scaled raster
\* can have, every opacity value, and the pixel-exact rasters.
ShadowInputs ==
    {Uniform(w, h, b) : w \in {1, TARGET_W}, h \in 1..TARGET_H, b \in BgSamples}
        \cup {Uniform(1, 3, a) : a \in 0..255}
        \cup SmallRasters

CallInit ==
    /\ dir = <<>>
    /\ files = <<>>
    /\ k = 1
    /\ pc = "idle"
    /\ out = {}
    /\ log = <<>>
    /\ call = NoCall

CallTightCrop ==
    /\ call = NoCall
    /\ \E rgba \in SmallRasters, pad \in Pads :
           call' = [fn |-> "tight_crop_rgba", rgba |-> rgba, pad |-> pad,
                    ret |-> tight_crop_rgba(rgba, pad)]
    /\ UNCHANGED <<dir, files, k, pc, out, log>>

CallDefringe ==
    /\ call = NoCall
    /\ \E rgba \in SmallRasters :
           call' = [fn |-> "defringe", first |-> rgba, rgba |-> rgba,
                    ret |-> defringe(rgba), n |-> 1]
    /\ UNCHANGED <<dir, files, k, pc, out, log>>

\* defringe applied to its own output
CallDefringeAgain ==
    /\ call.fn = "defringe"
    /\ call.n = 1
    /\ call' = [call EXCEPT !.rgba = call.ret, !.ret = defringe(call.ret), !.n = 2]
    /\ UNCHANGED <<dir, files, k, pc, out, log>>

CallFindGroundline ==
    /\ call = NoCall
    /\ \E alpha \in SmallRasters :
           call' = [fn |-> "find_groundline", alpha |-> alpha,
                    ret |-> find_groundline(alpha)]
    /\ UNCHANGED <<dir, files, k, pc, out, log>>

CallResizeToTarget ==
    /\ call = NoCall
    /\ \E rgba \in ResizeInputs :
           \E ret \in resize_to_target(rgba) :
               call' = [fn |-> "resize_to_target", rgba |-> rgba, ret |-> ret]
    /\ UNCHANGED <<dir, files, k, pc, out, log>>

CallMakeGroundShadow ==
    /\ call = NoCall
    /\ \E alpha \in ShadowInputs :
           \E ret \in make_ground_shadow(alpha) :
               call' = [fn |-> "make_ground_shadow", alpha |-> alpha, ret |-> ret]
    /\ UNCHANGED <<dir, files, k, pc, out, log>>

CallProcessFile ==
    /\ call = NoCall
    /\ \E cut \in ExtractorOutputs :
           \E loc \in process_file(cut) :
               call' = [fn |-> "process_file", loc |-> loc]
    /\ UNCHANGED <<dir, files, k, pc, out, log>>

CallNext ==
    \/ CallTightCrop
    \/ CallDefringe
    \/ CallDefringeAgain
    \/ CallFindGroundline
    \/ CallResizeToTarget
    \/ CallMakeGroundShadow
    \/ CallProcessFile

CallSpec == CallInit /\ [][CallNext]_vars

---------------------------------------------------------------------------
(* The claims *)

Abs(x) == IF x < 0 THEN -x ELSE x

\* Every run of process_file on f's content, or the save, raises.
Fails(f) ==
    \/ f.kind \in {"corrupt", "locked"}
    \/ \A loc \in process_file(CutOf(f)) : loc.raised

\* C1: process_file returns, for every extractor output, a canvas 600 wide
\* and 400 high whose every pixel has opacity 255.
C1_CanvasOpaque ==
    call.fn = "process_file" =>
        /\ ~call.loc.raised
        /\ call.loc.canvas = [w |-> 600, h |-> 400, alphas |-> {255}]

\* C2: every file of the list is attempted once, in list order; a failing
\* file gives a FAIL line, any other file is saved and gives an OK line;
\* the loop never stops before the last file and DONE is printed after it.
C2_BatchContinues ==
    pc \in {"loop", "done"} =>
        /\ files # <<>>
        /\ k <= Len(files) + 1
        /\ Len(log) = (k - 1) + (IF pc = "done" THEN 1 ELSE 0)
        /\ \A i \in 1..(k - 1) :
               IF Fails(files[i])
               THEN log[i] = <<"FAIL", NameOf(files[i])>>
               ELSE /\ log[i] = <<"OK", OutName(files[i])>>
                    /\ \E o \in out : o.name = OutName(files[i])
        /\ pc = "done" => k = Len(files) + 1 /\ log[Len(log)] = <<"DONE">>
        /\ pc = "loop" => \/ k <= Len(files) /\ Runs(files[k]) # {}
                        \/ k > Len(files)

C2_Witness ==
    /\ pc = "done"
    /\ Len(files) = 2
    /\ Fails(files[1])
    /\ ~Fails(files[2])
    /\ log = <<<<"FAIL", NameOf(files[1])>>, <<"OK", OutName(files[2])>>, <<"DONE">>>>

\* C3: when the scaled object has a row with a pixel of opacity > 20, and b
\* is the last such row, the vertical offset y satisfies y + b = 320.
C3_GroundAligned ==
    call.fn = "process_file" =>
        LET rgba == call.loc.rgba
            solid == {r \in 0..(rgba.h - 1) : RowHasOver(rgba, r, 20)}
        IN  solid # {} =>
                \A b \in solid :
                    (\A r \in solid : r <= b) => call.loc.y + b = 320

C3_Witness ==
    /\ call.fn = "process_file"
    /\ ~call.loc.raised
    /\ call.loc.obj_h = 328
    /\ RowHasOver(call.loc.rgba, 0, 20)
    /\ \A r \in 1..327 : ~RowHasOver(call.loc.rgba, r, 20)
    /\ call.loc.y = 320

\* C4 as claimed: the new sides lie in 1..528 and 1..328 and each differs
\* from w*s and h*s, s = min(528/w, 328/h), by less than one pixel.
C4_ScaleWithinLessThanOne ==
    call.fn = "resize_to_target" =>
        LET w == call.rgba.w
            h == call.rgba.h
            num == IF 528 * h <= 328 * w THEN 528 ELSE 328
            den == IF 528 * h <= 328 * w THEN w ELSE h
        IN  /\ 1 <= call.ret.w /\ call.ret.w <= 528
            /\ 1 <= call.ret.h /\ call.ret.h <= 328
            /\ Abs(call.ret.w * den - w * num) < den
            /\ Abs(call.ret.h * den - h * num) < den

\* C4 as amended: the new sides lie in 1..528 and 1..328 and each differs
\* from w*s and h*s, s = min(528/w, 328/h), by at most one pixel.
C4_ScaleWithinOne ==
    call.fn = "resize_to_target" =>
        LET w == call.rgba.w
            h == call.rgba.h
            num == IF 528 * h <= 328 * w THEN 528 ELSE 328
            den == IF 528 * h <= 328 * w THEN w ELSE h
        IN  /\ 1 <= call.ret.w /\ call.ret.w <= 528
            /\ 1 <= call.ret.h /\ call.ret.h <= 328
            /\ Abs(call.ret.w * den - w * num) <= den
            /\ Abs(call.ret.h * den - h * num) <= den

C4_Witness ==
    /\ call.fn = "resize_to_target"
    /\ call.rgba.w = 15
    /\ call.rgba.h = 10
    /\ call.ret.w = 491
    /\ call.ret.h = 328

\* C5: with no pixel of opacity > 8 tight_crop_rgba returns its argument;
\* with no pixel of opacity > 20 find_groundline returns height - 1; and
\* process_file on an all-transparent extractor output returns a result.
C5_EmptyMaskNeverFails ==
    /\ (call.fn = "tight_crop_rgba" /\ \A a \in AlphaValues(call.rgba) : a <= 8)
           => call.ret = call.rgba
    /\ (call.fn = "find_groundline" /\ \A a \in AlphaValues(call.alpha) : a <= 20)
           => call.ret = call.alpha.h - 1
    /\ (call.fn = "process_file" /\ AlphaValues(call.loc.cut) = {0})
           => ~call.loc.raised

\* C6: defringe keeps the shape and raises the opacity of no pixel, on any
\* raster and again on its own output.
C6_DefringeShrinks ==
    call.fn = "defringe" =>
        /\ call.ret.w = call.rgba.w /\ call.ret.h = call.rgba.h
        /\ \A p \in Positions(call.rgba.w, call.rgba.h) :
               /\ AlphaAt(call.ret, p) <= AlphaAt(call.rgba, p)
               /\ AlphaAt(call.ret, p) <= AlphaAt(call.first, p)

C6_Witness ==
    /\ call.fn = "defringe"
    /\ call.n = 2
    /\ \E p \in Positions(call.rgba.w, call.rgba.h) :
           /\ AlphaAt(call.ret, p) < AlphaAt(call.rgba, p)
           /\ AlphaAt(call.rgba, p) < AlphaAt(call.first, p)

\* C7: every opacity of the shadow layer make_ground_shadow returns is at
\* most 64.
C7_ShadowFaint ==
    /\ (call.fn = "make_ground_shadow" /\ ~call.ret.raised)
           => \A a \in AlphaValues(call.ret.layer) : a <= 64
    /\ (call.fn = "process_file" /\ ~call.loc.raised)
           => \A a \in AlphaValues(call.loc.shadow_layer) : a <= 64

C7_Witness ==
    /\ call.fn = "make_ground_shadow"
    /\ ~call.ret.raised
    /\ 255 \in AlphaValues(call.alpha)
    /\ 63 \in AlphaValues(call.ret.layer)

\* C8: when every accepted file is processed and saved, each has its own
\* output file, named as the input with the extension .png: as many output
\* files as inputs.
C8_OneOutputPerInput ==
    (pc = "done" /\ \A i \in 1..Len(files) : ~Fails(files[i])) =>
        /\ Cardinality(out) = Len(files)
        /\ \A i \in 1..Len(files) :
               [name |-> OutName(files[i]), from |-> NameOf(files[i])] \in out

\* C9: for a scaled object w wide and h high the shadow layer is w wide and
\* floor(0.35*h) high, both positive, and its top-left corner is at
\* (x, y + floor(0.65*h)).
C9_ShadowShape ==
    /\ call.fn = "make_ground_shadow" =>
           /\ call.ret.layer.w = call.alpha.w
           /\ call.ret.layer.h = (35 * call.alpha.h) \div 100
           /\ call.ret.layer.w >= 1 /\ call.ret.layer.h >= 1
    /\ call.fn = "process_file" =>
           /\ call.loc.shadow_layer.w = call.loc.obj_w
           /\ call.loc.shadow_layer.h = (35 * call.loc.obj_h) \div 100
           /\ call.loc.shadow_layer.w >= 1 /\ call.loc.shadow_layer.h >= 1
           /\ call.loc.shadow_y = call.loc.y + (65 * call.loc.obj_h) \div 100

\* C10: the object rectangle and the shadow rectangle lie inside the
\* 600x400 canvas.
C10_LayersInsideCanvas ==
    call.fn = "process_file" =>
        LET loc == call.loc
        IN  /\ loc.x = (600 - loc.obj_w) \div 2
            /\ loc.y = 320 - loc.bottom
            /\ 0 <= loc.x /\ loc.x + loc.obj_w <= 600
            /\ 0 <= loc.y /\ loc.y + loc.obj_h <= 400
            /\ 0 <= loc.shadow_y
            /\ loc.shadow_y + (35 * loc.obj_h) \div 100 <= 400

===========================================================================
